---- MODULE Spec2Model ----
(***************************************************************************)
(* retinanet/infer.py: infer().  One process per worker runs infer() with  *)
(* the same arguments except is_master; the workers only interact through  *)
(* torch.distributed.all_gather.  Tensors are sequences along dimension 0  *)
(* (one entry per sample); floats are exact rationals <<num, den>>.        *)
(***************************************************************************)
EXTENDS Integers, Sequences, FiniteSets, TLC

\* Bounds of the exploration.
MaxWorld == 2
MaxImages == 3

\* ------------------------------------------------------------------------
\* Arithmetic of the decoder (lines 143 and 154).

RECURSIVE GCD(_, _)
GCD(a, b) == IF b = 0 THEN a ELSE GCD(b, a % b)

Abs(x) == IF x < 0 THEN -x ELSE x

Rat(n, d) ==
    LET g == GCD(Abs(n), Abs(d))
        s == IF d < 0 THEN -1 ELSE 1
    IN  <<s * (n \div g), s * (d \div g)>>

RDiv(a, b) == Rat(a[1] * b[2], a[2] * b[1])

RSub(a, b) == Rat(a[1] * b[2] - b[1] * a[2], a[2] * b[2])

RAdd(a, b) == Rat(a[1] * b[2] + b[1] * a[2], a[2] * b[2])

One == <<1, 1>>

FromInt(x) == <<x, 1>>

\* ------------------------------------------------------------------------
\* Sequences.

RECURSIVE CatAll(_)
CatAll(ts) == IF ts = <<>> THEN <<>> ELSE Head(ts) \o CatAll(Tail(ts))

Reverse(s) == [k \in 1..Len(s) |-> s[Len(s) + 1 - k]]

\* ------------------------------------------------------------------------
\* The Data Source and the Model: external collaborators, small pools.

BatchSizes == {1, 2}

Tables == {"mixed", "nonpos", "oob"}

rA == [score |-> 9, box |-> <<10, 10, 30, 30>>, cls |-> 0]
rB == [score |-> 0, box |-> <<0, 0, 0, 0>>, cls |-> 0]
rC == [score |-> 5, box |-> <<3, 4, 8, 9>>, cls |-> 1]
rD == [score |-> -1, box |-> <<1, 2, 3, 4>>, cls |-> 1]
rE == [score |-> 7, box |-> <<2, 2, 6, 7>>, cls |-> 2]

\* scores, boxes, classes = model(data), for the sample with image id `id`
ModelOut(t, id) ==
    IF t = "nonpos" THEN <<rB, rD>>
    ELSE IF t = "oob" THEN <<rA, rE>>
    ELSE IF id % 3 = 0 THEN <<rA, rB>>
    ELSE IF id % 3 = 1 THEN <<rD, rC>>
    ELSE <<rC, rA>>

\* the resize ratio the Data Source reports for an image
RatioOf(id) ==
    IF id % 3 = 0 THEN <<2, 1>> ELSE IF id % 3 = 1 THEN <<1, 1>> ELSE <<1, 2>>

\* category ids of the manifest, in manifest order
Taxonomy == <<42, 17>>

ManifestKeys == {"annotations", "categories"}

\* the manifest (COCO dataset dict) with n images and the optional keys ks
Manifest(n, ks) ==
    [k \in {"images"} \cup ks |->
        IF k = "images" THEN [j \in 1..n |-> [id |-> j - 1]]
        ELSE IF k = "categories" THEN [j \in 1..Len(Taxonomy) |-> [id |-> Taxonomy[j]]]
        ELSE [j \in 1..n |-> [image_id |-> j - 1, category_id |-> Taxonomy[1]]]]

\* model handles: Model, DDP, a TensorRT Engine, or any other object, with
\* the attributes infer() reads from it
Models ==
    {[kind |-> "Model", stride |-> TRUE, input_size |-> FALSE],
     [kind |-> "DDP", stride |-> TRUE, input_size |-> FALSE],
     [kind |-> "Engine", stride |-> TRUE, input_size |-> TRUE]}
    \cup {[kind |-> "Other", stride |-> s, input_size |-> z] : s, z \in BOOLEAN}

\* ------------------------------------------------------------------------
\* State.

VARIABLES
    world, model, annotations, detections_file, batch_size, is_master,
    table, shard,
    pc, error, backend, synthesized, data_iterator, coco, i, results, sent,
    detections, written, evaluated, notice, phases

inputs == <<world, model, annotations, detections_file, batch_size, is_master,
            table, shard>>

vars == <<world, model, annotations, detections_file, batch_size, is_master,
          table, shard,
          pc, error, backend, synthesized, data_iterator, coco, i, results, sent,
          detections, written, evaluated, notice, phases>>

\* ranks of the worker processes: one process unless world > 1
ProcsOf(wd) == IF wd > 1 THEN 0..(wd - 1) ELSE {0}

Procs == ProcsOf(world)

RECURSIVE Offset(_, _)
Offset(cnt, w) == IF w = 0 THEN 0 ELSE Offset(cnt, w - 1) + cnt[w - 1]

\* worker w's slice of the reference dataset: cnt[w] consecutive image ids
Shard(cnt, w) == [k \in 1..cnt[w] |-> Offset(cnt, w) + k - 1]

Total(cnt, wd) == Offset(cnt, IF wd > 1 THEN wd ELSE 1)

Min(a, b) == IF a < b THEN a ELSE b

\* the batches a data iterator yields for the ids s with batch size b
Chunk(s, b) ==
    [k \in 1..((Len(s) + b - 1) \div b) |->
        SubSeq(s, (k - 1) * b + 1, Min(k * b, Len(s)))]

\* The arguments of one run.  A single process (world 0 or 1) is explored
\* with every argument varying; a distributed run (world > 1) with the model
\* wrapped in DDP, an output path, and either no manifest or a full one.
Arguments(wd, m, a, f, t) ==
    wd > 1 =>
        /\ m.kind = "DDP"
        /\ f
        /\ a.given => DOMAIN a.dataset = {"images"} \cup ManifestKeys
        /\ t # "oob"

Init ==
    /\ world \in 0..MaxWorld
    /\ model \in Models
    /\ detections_file \in BOOLEAN
    /\ batch_size \in BatchSizes
    /\ table \in Tables
    /\ is_master \in [Procs -> BOOLEAN]
    /\ \E cnt \in [Procs -> 0..MaxImages] :
          /\ Total(cnt, world) <= MaxImages
          /\ shard = [w \in Procs |-> Shard(cnt, w)]
          /\ annotations \in
                {[given |-> FALSE]} \cup
                {[given |-> TRUE, dataset |-> Manifest(Total(cnt, world), ks)] :
                    ks \in SUBSET ManifestKeys}
    /\ Arguments(world, model, annotations, detections_file, table)
    /\ pc = [w \in Procs |-> "start"]
    /\ error = [w \in Procs |-> "none"]
    /\ backend = [w \in Procs |-> "unset"]
    /\ synthesized = [w \in Procs |-> FALSE]
    /\ data_iterator = [w \in Procs |-> <<>>]
    /\ coco = [w \in Procs |-> Manifest(0, {})]
    /\ i = [w \in Procs |-> 0]
    /\ results = [w \in Procs |-> <<>>]
    /\ sent = [w \in Procs |-> <<>>]
    /\ detections = [w \in Procs |-> <<>>]
    /\ written = [w \in Procs |-> <<>>]
    /\ evaluated = [w \in Procs |-> "no"]
    /\ notice = [w \in Procs |-> FALSE]
    /\ phases = [w \in Procs |-> <<>>]

\* ------------------------------------------------------------------------
\* Lines 37-90: backend selection, manifest, Data Source, model preparation.

Backend(m) == IF m.kind \in {"Model", "DDP"} THEN "pytorch" ELSE "tensorrt"

\* faulty variant: every object that is no Model, DDP or Engine is rejected
MissingStrideOther(m) == m.kind = "Other"

\* lines 42-45: model.stride (model.module.stride for DDP) raises when absent
MissingStride(m) == ~m.stride

\* line 54: max(model.input_size) is read for the tensorrt backend only
MissingInputSize(m) == Backend(m) = "tensorrt" /\ ~m.input_size

\* lines 48-51: the manifest the Data Source loads
Dataset == IF annotations.given THEN annotations.dataset
           ELSE Manifest(Total([w \in Procs |-> Len(shard[w])], world), {})

Setup(w) ==
    /\ pc[w] = "start"
    /\ backend' = [backend EXCEPT ![w] = Backend(model)]
    /\ IF MissingStride(model)
       THEN /\ pc' = [pc EXCEPT ![w] = "failed"]
            /\ error' = [error EXCEPT ![w] = "stride"]
            /\ UNCHANGED <<synthesized, data_iterator, coco, phases>>
       ELSE /\ synthesized' = [synthesized EXCEPT ![w] = ~annotations.given]
            /\ IF MissingInputSize(model)
               THEN /\ pc' = [pc EXCEPT ![w] = "failed"]
                    /\ error' = [error EXCEPT ![w] = "input_size"]
                    /\ UNCHANGED <<data_iterator, coco, phases>>
               ELSE /\ data_iterator' =
                           [data_iterator EXCEPT ![w] = Chunk(shard[w], batch_size)]
                    /\ coco' = [coco EXCEPT ![w] = Dataset]
                    /\ phases' = [phases EXCEPT ![w] = <<"INFER">>]
                    /\ pc' = [pc EXCEPT ![w] = "loop"]
                    /\ UNCHANGED error
    /\ UNCHANGED <<inputs, i, results, sent, detections, written, evaluated, notice>>

\* ------------------------------------------------------------------------
\* Lines 92-123: the inference loop.

\* line 108 and 111: [scores, boxes, classes, ids, ratios] of one batch
Batch(t, ids) ==
    << [k \in 1..Len(ids) |-> [j \in 1..Len(ModelOut(t, ids[k])) |-> ModelOut(t, ids[k])[j].score]],
       [k \in 1..Len(ids) |-> [j \in 1..Len(ModelOut(t, ids[k])) |-> ModelOut(t, ids[k])[j].box]],
       [k \in 1..Len(ids) |-> [j \in 1..Len(ModelOut(t, ids[k])) |-> ModelOut(t, ids[k])[j].cls]],
       ids,
       [k \in 1..Len(ids) |-> RatioOf(ids[k])] >>

Forward(w) ==
    /\ pc[w] = "loop"
    /\ i[w] < Len(data_iterator[w])
    /\ results' = [results EXCEPT
                     ![w] = Append(@, Batch(table, data_iterator[w][i[w] + 1]))]
    /\ i' = [i EXCEPT ![w] = @ + 1]
    /\ UNCHANGED <<inputs, pc, error, backend, synthesized, data_iterator, coco,
                   sent, detections, written, evaluated, notice, phases>>

\* line 108: the model call raises; the error propagates out of infer()
ForwardRaise(w) ==
    /\ pc[w] = "loop"
    /\ i[w] < Len(data_iterator[w])
    /\ pc' = [pc EXCEPT ![w] = "failed"]
    /\ error' = [error EXCEPT ![w] = "forward"]
    /\ UNCHANGED <<inputs, backend, synthesized, data_iterator, coco, i, results,
                   sent, detections, written, evaluated, notice, phases>>

\* ------------------------------------------------------------------------
\* Lines 125-132: aggregation.

\* line 127: [torch.cat(r, dim=0) for r in zip(*results)]
ZipCat(rs) ==
    IF rs = <<>> THEN <<>>
    ELSE [f \in 1..Len(rs[1]) |-> CatAll([b \in 1..Len(rs) |-> rs[b][f]])]

\* lines 125-131: concatenate the batches and, with world > 1, enter the
\* first all_gather (the loop at line 129 makes no call when results is empty)
Concat(w) ==
    /\ pc[w] = "loop"
    /\ i[w] = Len(data_iterator[w])
    /\ LET r == ZipCat(results[w]) IN
          /\ results' = [results EXCEPT ![w] = r]
          /\ IF world > 1 /\ r # <<>>
             THEN /\ sent' = [sent EXCEPT ![w] = <<r[1]>>]
                  /\ pc' = [pc EXCEPT ![w] = "all_gather"]
             ELSE /\ pc' = [pc EXCEPT ![w] = "collect"]
                  /\ UNCHANGED sent
    /\ phases' = [phases EXCEPT ![w] = Append(@, "AGGREGATE")]
    /\ UNCHANGED <<inputs, error, backend, synthesized, data_iterator, coco, i,
                   detections, written, evaluated, notice>>

\* faulty variant: the collective returns as soon as one rank has called
AllArrivedAny(k) == \E v \in Procs : Len(sent[v]) >= k

\* torch.distributed.all_gather returns once every rank has made its k-th call
AllArrived(k) == \A v \in Procs : Len(sent[v]) >= k

\* all_gather is defined for tensors of one shape on every rank
SameShape(k) ==
    \A v, u \in Procs :
        (Len(sent[v]) >= k /\ Len(sent[u]) >= k) => Len(sent[v][k]) = Len(sent[u][k])

\* line 130: torch.ones_like(result), one entry of the k-th tensor
OnesEntry(k) ==
    IF k = 1 THEN <<1, 1>>
    ELSE IF k = 2 THEN << <<1, 1, 1, 1>>, <<1, 1, 1, 1>> >>
    ELSE IF k = 3 THEN <<1, 1>>
    ELSE IF k = 4 THEN 1
    ELSE <<1, 1>>

\* lines 130-131: worker w's buffers start as ones shaped like its own
\* tensor; all_result[r] receives rank r's tensor
all_result(w, k) ==
    [r \in 1..world |->
        IF Len(sent[r - 1]) >= k THEN sent[r - 1][k]
        ELSE [j \in 1..Len(sent[w][k]) |-> OnesEntry(k)]]

\* faulty variant: the gathered tensors concatenated in descending rank order
GatherCatReversed(ts) == CatAll(Reverse(ts))

\* line 132: torch.cat(all_result, dim=0)
GatherCat(ts) == CatAll(ts)

\* lines 129-132: the k-th all_gather returns, results[r] is replaced, and
\* the loop either enters the next all_gather or falls through to line 134
AllGather(w) ==
    /\ pc[w] = "all_gather"
    /\ LET k == Len(sent[w]) IN
          /\ AllArrived(k)
          /\ SameShape(k)
          /\ results' = [results EXCEPT ![w][k] = GatherCat(all_result(w, k))]
          /\ IF k < Len(results[w])
             THEN /\ sent' = [sent EXCEPT ![w] = Append(@, results[w][k + 1])]
                  /\ UNCHANGED pc
             ELSE /\ pc' = [pc EXCEPT ![w] = "collect"]
                  /\ UNCHANGED sent
    /\ UNCHANGED <<inputs, error, backend, synthesized, data_iterator, coco, i,
                   detections, written, evaluated, notice, phases>>

\* a receive buffer of worker w's shape holding what fits of rank v's tensor
Clipped(w, v, k) ==
    [j \in 1..Len(sent[w][k]) |->
        IF Len(sent[v]) >= k /\ j <= Len(sent[v][k]) THEN sent[v][k][j]
        ELSE OnesEntry(k)]

\* lines 130-132 with tensors of different shapes on the ranks: the
\* collective is undefined; it raises, never returns, or fills the buffers
\* (each shaped like the local tensor) with what fits
AllGatherMismatch(w) ==
    /\ pc[w] = "all_gather"
    /\ LET k == Len(sent[w]) IN
          /\ AllArrived(k)
          /\ ~SameShape(k)
          /\ \E outcome \in {"raise", "hang", "clip"} :
                IF outcome = "raise"
                THEN /\ pc' = [pc EXCEPT ![w] = "failed"]
                     /\ error' = [error EXCEPT ![w] = "all_gather"]
                     /\ UNCHANGED <<results, sent>>
                ELSE IF outcome = "hang"
                THEN /\ pc' = [pc EXCEPT ![w] = "hung"]
                     /\ UNCHANGED <<error, results, sent>>
                ELSE /\ results' = [results EXCEPT ![w][k] =
                            GatherCat([r \in 1..world |-> Clipped(w, r - 1, k)])]
                     /\ IF k < Len(results[w])
                        THEN /\ sent' = [sent EXCEPT ![w] = Append(@, results[w][k + 1])]
                             /\ UNCHANGED pc
                        ELSE /\ pc' = [pc EXCEPT ![w] = "collect"]
                             /\ UNCHANGED sent
                     /\ UNCHANGED error
    /\ UNCHANGED <<inputs, backend, synthesized, data_iterator, coco, i,
                   detections, written, evaluated, notice, phases>>

\* ------------------------------------------------------------------------
\* Lines 134-156: the decoder (master only).

\* faulty variant: rows of score 0 are kept too
KeepNonNegative(score) == score >= 0

\* line 141: keep = (scores > 0).nonzero()
Keep(score) == score > 0

\* line 149: 'annotations' in data_iterator.coco.dataset
HasAnnotations(ds) == "annotations" \in DOMAIN ds

\* COCO.getCatIds(): the ids of dataset['categories'], in order
getCatIds(ds) == [j \in 1..Len(ds["categories"]) |-> ds["categories"][j].id]

\* list indexing, negative indices counting from the end
ListIndex(n, c) == IF c < 0 THEN c + n + 1 ELSE c + 1

\* line 150 raises: KeyError without categories, IndexError out of range
LookupRaises(ds, cat) ==
    HasAnnotations(ds) /\
        (\/ "categories" \notin DOMAIN ds
         \/ ListIndex(Len(getCatIds(ds)), cat) \notin 1..Len(getCatIds(ds)))

\* faulty variant: the lookup is made whenever the manifest has categories
CatIdByCategories(ds, cat) ==
    IF "categories" \in DOMAIN ds /\ cat \in 0..(Len(getCatIds(ds)) - 1)
    THEN getCatIds(ds)[cat + 1] ELSE cat

\* lines 148-150
CatId(ds, cat) ==
    IF HasAnnotations(ds)
    THEN getCatIds(ds)[ListIndex(Len(getCatIds(ds)), cat)]
    ELSE cat

\* faulty variant: width and height get their +1 before the division
BBoxPlusOneFirst(box, ratio) ==
    << RDiv(FromInt(box[1]), ratio), RDiv(FromInt(box[2]), ratio),
       RDiv(FromInt(box[3] - box[1] + 1), ratio),
       RDiv(FromInt(box[4] - box[2] + 1), ratio) >>

\* lines 143 and 154: the corners divided by the ratio, then x2-x1+1, y2-y1+1
BBox(box, ratio) ==
    LET d == [c \in 1..4 |-> RDiv(FromInt(box[c]), ratio)] IN
    << d[1], d[2], RAdd(RSub(d[3], d[1]), One), RAdd(RSub(d[4], d[2]), One) >>

\* the indices line 141 keeps, ascending
KeptRows(scores) ==
    SelectSeq([j \in 1..Len(scores) |-> j], LAMBDA j : Keep(scores[j]))

\* lines 141-156 for one sample
DecodeSample(ds, scores, boxes, classes, id, ratio) ==
    LET keep == KeptRows(scores) IN
    [n \in 1..Len(keep) |->
        [image_id |-> id,
         score |-> scores[keep[n]],
         bbox |-> BBox(boxes[keep[n]], ratio),
         category_id |-> CatId(ds, classes[keep[n]])]]

\* line 140: zip(*results) runs over the samples all five tensors have
NumSamples(res) ==
    IF res = <<>> THEN 0
    ELSE CHOOSE n \in 0..Len(res[1]) :
            /\ \A f \in 1..Len(res) : n <= Len(res[f])
            /\ \E f \in 1..Len(res) : n = Len(res[f])

DecodeRaises(ds, res) ==
    \E s \in 1..NumSamples(res) : \E j \in 1..Len(res[1][s]) :
        Keep(res[1][s][j]) /\ LookupRaises(ds, res[3][s][j])

\* lines 139-156
Decode(ds, res) ==
    CatAll([s \in 1..NumSamples(res) |->
        DecodeSample(ds, res[1][s], res[2][s], res[3][s], res[4][s], res[5][s])])

\* faulty variant: the is_master test is dropped
MasterAlways(w) == TRUE

\* line 134: if is_master
Master(w) == is_master[w]

\* line 134 on a worker that is not the master: infer() returns
NotMaster(w) ==
    /\ pc[w] = "collect"
    /\ ~Master(w)
    /\ pc' = [pc EXCEPT ![w] = "done"]
    /\ UNCHANGED <<inputs, error, backend, synthesized, data_iterator, coco, i,
                   results, sent, detections, written, evaluated, notice, phases>>

Collect(w) ==
    /\ pc[w] = "collect"
    /\ Master(w)
    /\ phases' = [phases EXCEPT ![w] = Append(@, "DECODE")]
    /\ IF DecodeRaises(coco[w], results[w])
       THEN /\ pc' = [pc EXCEPT ![w] = "failed"]
            /\ error' = [error EXCEPT ![w] = "decode"]
            /\ UNCHANGED detections
       ELSE /\ detections' = [detections EXCEPT ![w] = Decode(coco[w], results[w])]
            /\ pc' = [pc EXCEPT ![w] = "save"]
            /\ UNCHANGED error
    /\ UNCHANGED <<inputs, backend, synthesized, data_iterator, coco, i, results,
                   sent, written, evaluated, notice>>

\* ------------------------------------------------------------------------
\* Lines 158-178: output file and evaluation.

\* faulty variant: the save branch is taken for an empty list too
HasDetectionsAlways(d) == TRUE

\* line 158: if detections
HasDetections(d) == d # <<>>

\* lines 161-164: the object json.dump writes
Output(ds, dets) ==
    [k \in {"annotations", "images"} \cup (DOMAIN ds \cap {"categories"}) |->
        IF k = "annotations" THEN dets
        ELSE IF k = "images" THEN ds["images"]
        ELSE <<ds["categories"]>>]

\* lines 158-166 (detections) and 177-178 (no detections)
Save(w) ==
    /\ pc[w] = "save"
    /\ IF HasDetections(detections[w])
       THEN /\ phases' = [phases EXCEPT ![w] = Append(@, "WRITE")]
            /\ written' = [written EXCEPT ![w] =
                  IF detections_file
                  THEN Append(@, Output(coco[w], detections[w])) ELSE @]
            /\ pc' = [pc EXCEPT ![w] = "evaluate"]
            /\ UNCHANGED notice
       ELSE /\ phases' = [phases EXCEPT ![w] = Append(@, "SKIP_EMPTY")]
            /\ notice' = [notice EXCEPT ![w] = TRUE]
            /\ pc' = [pc EXCEPT ![w] = "done"]
            /\ UNCHANGED written
    /\ UNCHANGED <<inputs, error, backend, synthesized, data_iterator, coco, i,
                   results, sent, detections, evaluated>>

\* faulty variant: the evaluator is run whatever the manifest holds
HasGroundTruthAlways(ds) == TRUE

\* line 169: 'annotations' in data_iterator.coco.dataset
HasGroundTruth(ds) == "annotations" \in DOMAIN ds

\* lines 169-176: COCOeval on the detections; an evaluator error propagates
Evaluate(w) ==
    /\ pc[w] = "evaluate"
    /\ HasGroundTruth(coco[w])
    /\ phases' = [phases EXCEPT ![w] = Append(@, "EVALUATE")]
    /\ \E ok \in BOOLEAN :
          IF ok
          THEN /\ evaluated' = [evaluated EXCEPT ![w] = "summarized"]
               /\ pc' = [pc EXCEPT ![w] = "done"]
               /\ UNCHANGED error
          ELSE /\ evaluated' = [evaluated EXCEPT ![w] = "raised"]
               /\ pc' = [pc EXCEPT ![w] = "failed"]
               /\ error' = [error EXCEPT ![w] = "evaluate"]
    /\ UNCHANGED <<inputs, backend, synthesized, data_iterator, coco, i, results,
                   sent, detections, written, notice>>

\* line 169 false: no ground truth, infer() returns
SkipEvaluate(w) ==
    /\ pc[w] = "evaluate"
    /\ ~HasGroundTruth(coco[w])
    /\ phases' = [phases EXCEPT ![w] = Append(@, "SKIP_NO_GROUND_TRUTH")]
    /\ pc' = [pc EXCEPT ![w] = "done"]
    /\ UNCHANGED <<inputs, error, backend, synthesized, data_iterator, coco, i,
                   results, sent, detections, written, evaluated, notice>>

\* ------------------------------------------------------------------------

Next ==
    \/ \E w \in Procs : Setup(w)
    \/ \E w \in Procs : Forward(w)
    \/ \E w \in Procs : ForwardRaise(w)
    \/ \E w \in Procs : Concat(w)
    \/ \E w \in Procs : AllGather(w)
    \/ \E w \in Procs : AllGatherMismatch(w)
    \/ \E w \in Procs : NotMaster(w)
    \/ \E w \in Procs : Collect(w)
    \/ \E w \in Procs : Save(w)
    \/ \E w \in Procs : Evaluate(w)
    \/ \E w \in Procs : SkipEvaluate(w)

Spec == Init /\ [][Next]_vars

\* ------------------------------------------------------------------------
\* Vocabulary of the properties.

InSeq(x, q) == \E k \in 1..Len(q) : q[k] = x

IsPrefix(p, q) == Len(p) <= Len(q) /\ \A k \in 1..Len(p) : p[k] = q[k]

\* worker w has left the aggregation step (line 134 reached)
Aggregated(w) ==
    \/ pc[w] \in {"collect", "save", "evaluate", "done"}
    \/ pc[w] = "failed" /\ error[w] \in {"decode", "evaluate"}

\* worker w has run the decoder to its end
Decoded(w) == InSeq("DECODE", phases[w]) /\ error[w] # "decode"

\* the data iterator of worker w has been built
Built(w) == phases[w] # <<>>

EqualShards == \A v, u \in Procs : Len(shard[v]) = Len(shard[u])

\* what one worker accumulates over the batches of all slices in rank order
AllBatches == CatAll([r \in 1..Cardinality(Procs) |-> Chunk(shard[r - 1], batch_size)])

Reference == ZipCat([b \in 1..Len(AllBatches) |-> Batch(table, AllBatches[b])])

\* the candidate rows <<sample, row>> of worker w's aggregated result
Rows(w) ==
    IF results[w] = <<>> THEN {}
    ELSE UNION {{<<s, j>> : j \in 1..Len(results[w][1][s])} :
                    s \in 1..NumSamples(results[w])}

Positive(w) == {p \in Rows(w) : results[w][1][p[1]][p[2]] > 0}

Before(p, q) == p[1] < q[1] \/ (p[1] = q[1] /\ p[2] < q[2])

\* the position of the Detection of a kept row
Rank(w, p) == Cardinality({q \in Positive(w) : Before(q, p)}) + 1

\* the rational a = <<n, d>> equals num / den
Equals(a, num, den) == a[2] > 0 /\ a[1] * den = num * a[2]

C2_OnePerPositiveRow ==
    \A w \in Procs :
        Decoded(w) =>
            /\ Len(detections[w]) = Cardinality(Positive(w))
            /\ \A p \in Positive(w) :
                  /\ detections[w][Rank(w, p)].image_id = results[w][4][p[1]]
                  /\ detections[w][Rank(w, p)].score = results[w][1][p[1]][p[2]]

C2_Witness ==
    \E w \in Procs :
        /\ Decoded(w)
        /\ Cardinality(Positive(w)) = 2
        /\ Cardinality(Rows(w)) = 4
        /\ detections[w][1].image_id # detections[w][2].image_id

\* C3: the bbox of a kept row with corners (x1, y1, x2, y2) and ratio r is
\* [x1/r, y1/r, x2/r - x1/r + 1, y2/r - y1/r + 1]; with ratio 2 the box
\* [10, 10, 30, 30] gives [5, 5, 11, 11].
C3_BoxRescale ==
    \A w \in Procs :
        Decoded(w) =>
            \A p \in Positive(w) :
                LET b == detections[w][Rank(w, p)].bbox
                    c == results[w][2][p[1]][p[2]]
                    r == results[w][5][p[1]]
                IN  /\ Equals(b[1], c[1] * r[2], r[1])
                    /\ Equals(b[2], c[2] * r[2], r[1])
                    /\ Equals(b[3], (c[3] - c[1]) * r[2] + r[1], r[1])
                    /\ Equals(b[4], (c[4] - c[2]) * r[2] + r[1], r[1])
                    /\ (c = <<10, 10, 30, 30>> /\ r = <<2, 1>>) =>
                            b = << <<5, 1>>, <<5, 1>>, <<11, 1>>, <<11, 1>> >>

C3_Witness ==
    \E w \in Procs :
        /\ Decoded(w)
        /\ \E p \in Positive(w) :
              /\ results[w][2][p[1]][p[2]] = <<10, 10, 30, 30>>
              /\ results[w][5][p[1]] = <<2, 1>>
        /\ \E p \in Positive(w) : results[w][5][p[1]] = <<1, 2>>

\* C4 (as stated): a manifest that carries the taxonomy (its categories)
\* makes class index i decode to taxonomy[i]; without one the index is kept.
C4_TaxonomySupplied ==
    \A w \in Procs :
        Decoded(w) =>
            \A p \in Positive(w) :
                LET c == results[w][3][p[1]][p[2]]
                    d == detections[w][Rank(w, p)].category_id
                IN  IF "categories" \in DOMAIN coco[w]
                    THEN c \in 0..(Len(coco[w]["categories"]) - 1) =>
                            d = coco[w]["categories"][c + 1].id
                    ELSE d = c

\* C4 (amended): class index i in [0, M) decodes to the i-th category id of
\* the manifest exactly when the manifest holds ground-truth annotations;
\* without annotations the index is kept, categories or not.
C4_GroundTruthTaxonomy ==
    \A w \in Procs :
        Decoded(w) =>
            \A p \in Positive(w) :
                LET c == results[w][3][p[1]][p[2]]
                    d == detections[w][Rank(w, p)].category_id
                IN  IF "annotations" \in DOMAIN coco[w]
                    THEN /\ "categories" \in DOMAIN coco[w]
                         /\ c \in 0..(Len(coco[w]["categories"]) - 1) =>
                                d = coco[w]["categories"][c + 1].id
                    ELSE d = c

C4_Witness ==
    \E w \in Procs :
        /\ Decoded(w)
        /\ "annotations" \in DOMAIN coco[w]
        /\ \E p \in Positive(w) :
              /\ results[w][3][p[1]][p[2]] = 1
              /\ detections[w][Rank(w, p)].category_id = 17
        /\ \E p \in Positive(w) :
              /\ results[w][3][p[1]][p[2]] = 0
              /\ detections[w][Rank(w, p)].category_id = 42

\* C5: a run whose decoder yields no Detection never writes the output
\* file and never invokes the evaluator; it prints the notice and returns.
C5_EmptyRun ==
    \A w \in Procs :
        (Decoded(w) /\ detections[w] = <<>>) =>
            /\ written[w] = <<>>
            /\ evaluated[w] = "no"
            /\ pc[w] \in {"save", "done"}
            /\ pc[w] = "done" => (notice[w] /\ error[w] = "none")

C5_Witness ==
    \E w \in Procs :
        /\ Decoded(w)
        /\ detections[w] = <<>>
        /\ pc[w] = "done"
        /\ Rows(w) # {}
        /\ detections_file
        /\ "annotations" \in DOMAIN coco[w]

\* C6: what is written has the Detections as annotations, the manifest's
\* images, and the manifest's categories unmodified when it has any; a file
\* is written exactly when a path is given and there is a Detection.
C6_OutputEchoesManifest ==
    \A w \in Procs :
        /\ written[w] # <<>> =>
              /\ detections_file
              /\ Len(written[w]) = 1
              /\ written[w][1]["annotations"] = detections[w]
              /\ detections[w] # <<>>
              /\ written[w][1]["images"] = coco[w]["images"]
              /\ ("categories" \in DOMAIN written[w][1]) <=> ("categories" \in DOMAIN coco[w])
              /\ "categories" \in DOMAIN coco[w] =>
                    /\ Len(written[w][1]["categories"]) = Len(coco[w]["categories"])
                    /\ \A k \in 1..Len(coco[w]["categories"]) :
                          written[w][1]["categories"][k] = coco[w]["categories"][k]
        /\ ~detections_file => written[w] = <<>>
        /\ (detections_file /\ detections[w] # <<>> /\ pc[w] \in {"evaluate", "done"}) =>
              written[w] # <<>>

\* C7 (as stated): a master's run that returns has passed INFER, AGGREGATE,
\* DECODE, one of WRITE and SKIP-EMPTY, one of EVALUATE and
\* SKIP-NO-GROUND-TRUTH, in this order, with EVALUATE exactly when the
\* manifest holds ground-truth annotations.
C7_FivePhases ==
    \A w \in Procs :
        (is_master[w] /\ pc[w] = "done") =>
            /\ Len(phases[w]) = 5
            /\ SubSeq(phases[w], 1, 3) = <<"INFER", "AGGREGATE", "DECODE">>
            /\ phases[w][4] \in {"WRITE", "SKIP_EMPTY"}
            /\ phases[w][5] \in {"EVALUATE", "SKIP_NO_GROUND_TRUTH"}
            /\ (phases[w][5] = "EVALUATE") <=> ("annotations" \in DOMAIN coco[w])

\* the phases of a run of worker w that returns
Pass(w) ==
    IF ~is_master[w] THEN <<"INFER", "AGGREGATE">>
    ELSE IF detections[w] = <<>> THEN <<"INFER", "AGGREGATE", "DECODE", "SKIP_EMPTY">>
    ELSE <<"INFER", "AGGREGATE", "DECODE", "WRITE",
           IF "annotations" \in DOMAIN coco[w] THEN "EVALUATE"
           ELSE "SKIP_NO_GROUND_TRUTH">>

\* C7 (amended): phases are entered in the order INFER, AGGREGATE, DECODE,
\* then WRITE or SKIP-EMPTY, none twice; after WRITE comes EVALUATE exactly
\* when the manifest holds ground-truth annotations and
\* SKIP-NO-GROUND-TRUTH otherwise; after SKIP-EMPTY the run returns with
\* neither; a worker that is not the master returns after AGGREGATE.
C7_OnePass ==
    \A w \in Procs :
        /\ \E x \in {"WRITE", "SKIP_EMPTY"} :
           \E y \in {"EVALUATE", "SKIP_NO_GROUND_TRUTH"} :
              IsPrefix(phases[w], <<"INFER", "AGGREGATE", "DECODE", x, y>>)
        /\ pc[w] = "done" => phases[w] = Pass(w)

C7_Witness ==
    \E w \in Procs :
        /\ pc[w] = "done"
        /\ phases[w] = <<"INFER", "AGGREGATE", "DECODE", "WRITE", "EVALUATE">>

\* the collective calls that have returned to worker w
Returned(w) == IF pc[w] \in {"all_gather", "hung"} \/ error[w] = "all_gather"
               THEN Len(sent[w]) - 1 ELSE Len(sent[w])

\* worker v has stopped or gone past the aggregation without a k-th call
NeverCalls(v, k) ==
    /\ Len(sent[v]) < k
    /\ pc[v] \in {"failed", "hung", "collect", "save", "evaluate", "done"}

Barrier ==
    /\ \A w, v \in Procs : Returned(w) <= Len(sent[v])
    /\ \A w \in Procs :
          (world > 1 /\ Aggregated(w) /\ results[w] # <<>>) =>
              \A v \in Procs : Len(sent[v]) = Len(results[w])
    /\ world <= 1 =>
          \A w \in Procs : sent[w] = <<>> /\ pc[w] \notin {"all_gather", "hung"}

StaysBlocked ==
    \A w, v \in Procs :
        /\ (pc[w] = "all_gather" /\ NeverCalls(v, Len(sent[w]))) =>
              (pc'[w] = "all_gather" /\ sent'[w] = sent[w])
        /\ \A k \in 1..5 : NeverCalls(v, k) => NeverCalls(v, k)'

C9_Rejected ==
    \A w \in Procs :
        (model.kind = "Other" /\ pc[w] # "start") =>
            /\ pc[w] = "failed"
            /\ ~synthesized[w]
            /\ ~Built(w)
            /\ results[w] = <<>>

\* C9 (amended): such a model is taken for the tensorrt backend and never
\* rejected for its type.  The run fails before any work only when the
\* object has no stride; with a stride and no input_size it fails once the
\* manifest has been synthesized (when none was given), before the Data
\* Source is built; with both attributes it runs.
C9_TakenForTensorRT ==
    \A w \in Procs :
        (model.kind = "Other" /\ pc[w] # "start") =>
            /\ backend[w] = "tensorrt"
            /\ ~model.stride =>
                  /\ pc[w] = "failed" /\ error[w] = "stride"
                  /\ ~synthesized[w] /\ ~Built(w) /\ results[w] = <<>>
            /\ (model.stride /\ ~model.input_size) =>
                  /\ pc[w] = "failed" /\ error[w] = "input_size"
                  /\ synthesized[w] = ~annotations.given
                  /\ ~Built(w) /\ results[w] = <<>>
            /\ (model.stride /\ model.input_size) =>
                  /\ Built(w)
                  /\ error[w] \notin {"stride", "input_size"}

C9_Witness ==
    /\ model.kind = "Other"
    /\ \E w \in Procs : pc[w] = "done" /\ written[w] # <<>>

\* C10 (as stated): a worker that is not the master never decodes, writes,
\* evaluates or prints the notice, and with world > 1 it has taken part in
\* every collective call any worker has made by the time it returns.
C10_EveryExchange ==
    \A w \in Procs :
        ~is_master[w] =>
            /\ ~InSeq("DECODE", phases[w])
            /\ detections[w] = <<>> /\ written[w] = <<>>
            /\ evaluated[w] = "no" /\ ~notice[w]
            /\ (world > 1 /\ pc[w] = "done") =>
                  \A v \in Procs : Len(sent[v]) <= Len(sent[w])

\* C10 (amended): a worker that is not the master never decodes, writes,
\* evaluates or prints the notice; with world > 1 and at least one batch of
\* its own it has made all five collective calls when it returns, and with
\* no batch it makes none; only a master writes the detections file.
C10_NotMaster ==
    \A w \in Procs :
        /\ ~is_master[w] =>
              /\ ~InSeq("DECODE", phases[w])
              /\ detections[w] = <<>> /\ written[w] = <<>>
              /\ evaluated[w] = "no" /\ ~notice[w]
              /\ (world > 1 /\ pc[w] = "done") =>
                    Len(sent[w]) = (IF shard[w] = <<>> THEN 0 ELSE 5)
        /\ written[w] # <<>> => is_master[w]

C10_Witness ==
    /\ world > 1
    /\ \E w, v \in Procs :
          /\ ~is_master[w] /\ pc[w] = "done" /\ Len(sent[w]) = 5
          /\ is_master[v] /\ written[v] # <<>>

====
